---- MODULE Spec2Model ----
(***************************************************************************)
(* Training-loop drivers of the repository:                                *)
(*   VAEs/vq-vae/trainers/vq_vae_train.py      (class VQVAEtrainer)        *)
(*   speech-synthesis/TTS/tacotron2/train.py   (class Tacotron2Trainer)    *)
(*                                                                         *)
(* Spec      one worker process (one rank) of a run with n_procs workers:  *)
(*           training and validation of both drivers, called in any order. *)
(* SpecCkpt  the same process of the VQ-VAE driver with save_checkpoint    *)
(*           and load_checkpoint.                                          *)
(* SpecMW    all ranks of a run, with the blocking all-reduce collective.  *)
(* SpecConv  VQVAEtrainer.convert_to_var as a function of the batch.       *)
(*                                                                         *)
(* Numbers: losses, gradients, parameters and the learning rate are        *)
(* integers (fixed-point units); parameter and gradient buffers hold       *)
(* values of a finite range, 0..ValueRange-1, and their arithmetic wraps.  *)
(* A Python true division whose result is only logged is kept as the pair  *)
(* <<numerator, denominator>>.                                             *)
(***************************************************************************)
EXTENDS Integers, Sequences, FiniteSets, TLC

\* ---------------------------------------------------------------- bounds
MaxSize == 3
MaxBatchSize == 1
MaxProcs == 2
MaxValSize == 1
MaxEpoch == 1
MaxCalls == 3
MaxData == 1
ValueRange == 5
MaxShard == 2
MaxPixels == 3

\* ------------------------------------------------ configured values
\* config['train']['weight_decay']
weight_decay == 1
\* config['train']['learning_rate_decay_factor']
learning_rate_decay_factor == 2
\* the solver's learning rate when the trainer is constructed
InitialLearningRate == 1
\* hparams.epochs_per_checkpoint
epochs_per_checkpoint == 2
\* the largest raw pixel value: img / 255.0
ByteMax == 255

VARIABLES
    \* ---- configuration, fixed by construction
    driver,                      \* "vqvae" | "tacotron2"
    n_procs,                     \* comm.n_procs
    rank,                        \* comm.rank
    size,                        \* data_loader.size / dataloader['train'].size
    batch_size,                  \* data_loader.batch_size / hparams.batch_size
    val_size,                    \* val_data_loader.size / dataloader['valid'].size
    learning_rate_decay_epochs,  \* config['train']['learning_rate_decay_epochs']
    \* ---- model and solver
    parameters,                  \* nn.get_parameters(): the parameter values
    grad,                        \* the parameters' gradient buffers (x.grad)
    solver_states,               \* the solver's internal state (update count)
    learning_rate,               \* solver.learning_rate()
    \* ---- the running handler
    pc,                          \* "idle" | "train" | "validate"
    epoch,                       \* the epoch argument of the last handler call
    i,                           \* the loop index of the running train/validate
    epoch_loss,                  \* the local epoch_loss of train/validate
    loss_acc,                    \* Tacotron2Trainer.loss (validation accumulator)
    \* ---- outputs
    logged,                      \* the monitor record the last step added, if any
    checkpoints,                 \* epoch -> contents of <path>/epoch_<epoch>
    \* ---- history
    calls,                       \* number of handler calls made
    last,                        \* the last handler step taken
    batchOps,                    \* the framework calls of the last step, in order
    fetched,                     \* batches fetched during the last handler call
    lossTotal,                   \* sum of the losses of those batches
    before,                      \* model/solver state when the last handler was called
    saved,                       \* epoch -> parameters and solver state immediately
                                 \* before the last save_checkpoint(path, epoch)
    \* ---- SpecMW: every rank of one run (functions of the rank)
    cur_epoch,                   \* the epoch being run (train's argument, cur_epoch)
    w_pc,                        \* rank -> position in the epoch
    w_i,                         \* rank -> loop index
    w_state,                     \* rank -> model/solver state of the process
    w_loss,                      \* rank -> epoch_loss (VQ-VAE) / self.loss (Tacotron2)
    todo,                        \* rank -> framework calls left in the running batch
    inflight,                    \* rank -> the all-reduce the rank is blocked in
    issued,                      \* rank -> the all-reduce calls made so far, in order
    w_logged,                    \* rank -> the loss the rank's monitor logged
    w_snapshot,                  \* rank -> the epoch whose outputs the rank wrote
    contrib,                     \* rank -> the buffer it brought to the gradient
                                 \* all-reduce some rank has still to apply
    \* ---- SpecConv
    img,                         \* the batch passed to convert_to_var
    converted                    \* the array convert_to_var returned

vars == <<driver, n_procs, rank, size, batch_size, val_size,
          learning_rate_decay_epochs, parameters, grad, solver_states,
          learning_rate, pc, epoch, i, epoch_loss, loss_acc, logged,
          checkpoints, calls, last, batchOps, fetched, lossTotal, before, saved,
          cur_epoch, w_pc, w_i, w_state, w_loss, todo, inflight, issued, w_logged,
          w_snapshot, contrib, img, converted>>

rankVars == <<rank, parameters, grad, solver_states, learning_rate, pc, epoch, i,
              epoch_loss, loss_acc, logged, checkpoints, calls, last, batchOps,
              fetched, lossTotal, before, saved>>

mwVars == <<cur_epoch, w_pc, w_i, w_state, w_loss, todo, inflight, issued,
            w_logged, w_snapshot, contrib>>

convVars == <<img, converted>>

config == <<driver, n_procs, rank, size, batch_size, val_size,
            learning_rate_decay_epochs>>

Epochs == 0..MaxEpoch
Batches == 1..MaxData
None == [none |-> TRUE]

\* ------------------------------------------------------------ arithmetic
\* int(np.ceil(a / b)) for positive integers
Ceil(a, b) == (a + b - 1) \div b

\* int(np.ceil(size / batch_size / n_procs))
IterationsPerEpoch(sz, bs, n) == Ceil(sz, bs * n)

iterations_per_epoch == IterationsPerEpoch(size, batch_size, n_procs)

val_iterations_per_epoch == IterationsPerEpoch(val_size, batch_size, n_procs)

\* trange(self.iterations_per_epoch // self.comm.n_procs)
TrainLoopCount(ipe, n) == ipe \div n

\* trange(self.val_iterations_per_epoch)
ValidateLoopCount(vipe, ipe) == vipe

\* avg_epoch_loss = epoch_loss / self.iterations_per_epoch   (train)
TrainLossDivisor(ipe, n) == ipe

\* avg_epoch_loss = epoch_loss / self.iterations_per_epoch   (validate)
ValidateLossDivisor(vipe, ipe) == ipe

\* ------------------------------------------- model and solver operations
State == [parameters |-> parameters, grad |-> grad,
          solver_states |-> solver_states, learning_rate |-> learning_rate]

\* a value stored into a parameter or gradient buffer
Wrap(x) == x % ValueRange

\* comm.all_reduce(grads, division, inplace): every rank's buffer receives the
\* sum of all ranks' buffers, divided by the number of ranks when division
Combine(total, n, division) == IF division THEN total \div n ELSE total

\* one framework call applied to the model/solver state
Apply(op, s) ==
    CASE op.op = "zero_grad" -> [s EXCEPT !.grad = 0]
      [] op.op = "backward" -> [s EXCEPT !.grad = Wrap(s.grad + op.g)]
      [] op.op = "all_reduce" ->
            [s EXCEPT !.grad = Wrap(Combine(s.grad + op.peers, op.n, op.division))]
      [] op.op = "weight_decay" ->
            [s EXCEPT !.grad = Wrap(s.grad + op.rate * s.parameters)]
      [] op.op = "update" ->
            [s EXCEPT !.parameters = Wrap(s.parameters - s.learning_rate * s.grad),
                      !.solver_states = s.solver_states + 1]
      [] OTHER -> s

RECURSIVE Exec(_, _)
Exec(ops, s) == IF ops = <<>> THEN s ELSE Exec(Tail(ops), Apply(Head(ops), s))

\* the names of a sequence of framework calls
Names(ops) == [k \in DOMAIN ops |-> ops[k].op]

\* VQTrainBatchOps with the all-reduce averaging (division=True)
VQTrainBatchOps_Averaged(n, g, peers) ==
    << [op |-> "next"], [op |-> "forward"], [op |-> "set_parameters"],
       [op |-> "zero_grad"], [op |-> "backward", g |-> g],
       [op |-> "all_reduce", division |-> TRUE, n |-> n, peers |-> peers],
       [op |-> "weight_decay", rate |-> weight_decay], [op |-> "update"] >>

\* VQTrainBatchOps with the all-reduce issued after the update
VQTrainBatchOps_ReduceAfterUpdate(n, g, peers) ==
    << [op |-> "next"], [op |-> "forward"], [op |-> "set_parameters"],
       [op |-> "zero_grad"], [op |-> "backward", g |-> g],
       [op |-> "weight_decay", rate |-> weight_decay], [op |-> "update"],
       [op |-> "all_reduce", division |-> FALSE, n |-> n, peers |-> peers] >>

\* the body of the loop of VQVAEtrainer.train
VQTrainBatchOps(n, g, peers) ==
    << [op |-> "next"], [op |-> "forward"], [op |-> "set_parameters"],
       [op |-> "zero_grad"], [op |-> "backward", g |-> g],
       [op |-> "all_reduce", division |-> FALSE, n |-> n, peers |-> peers],
       [op |-> "weight_decay", rate |-> weight_decay], [op |-> "update"] >>

\* VQValidateBatchOps with the training body's backward pass and update
VQValidateBatchOps_Trains ==
    << [op |-> "next"], [op |-> "forward"], [op |-> "zero_grad"],
       [op |-> "backward", g |-> 1], [op |-> "update"] >>

\* the body of the loop of VQVAEtrainer.validate
VQValidateBatchOps == << [op |-> "next"], [op |-> "forward"] >>

\* Tacotron2Trainer.train_on_batch
TacoTrainOps(n, g, peers) ==
    << [op |-> "zero_grad"] >>
    \o (IF n > 1 THEN << [op |-> "default_stream_synchronize"] >> ELSE <<>>)
    \o << [op |-> "next"], [op |-> "forward"], [op |-> "backward", g |-> g] >>
    \o (IF n > 1
        THEN << [op |-> "all_reduce", division |-> TRUE, n |-> n, peers |-> peers],
                [op |-> "add_default_stream_event"] >>
        ELSE <<>>)
    \o << [op |-> "update"] >>

\* Tacotron2Trainer.valid_on_batch
TacoValidOps(n) ==
    (IF n > 1 THEN << [op |-> "default_stream_synchronize"] >> ELSE <<>>)
    \o << [op |-> "next"], [op |-> "forward"] >>

\* DecayedRate with the test against the configured epochs dropped
DecayedRate_EveryEpoch(e, rate) == rate * learning_rate_decay_factor

\* solver.set_learning_rate(solver.learning_rate() * factor) when the epoch is
\* one of the configured decay epochs
DecayedRate(e, rate) ==
    IF e \in learning_rate_decay_epochs THEN rate * learning_rate_decay_factor
    ELSE rate

\* the model's forward pass on a batch: the value of loss.d
Forward(data) == data

\* the gradient loss.backward() accumulates for a batch
Backward(data) == data

\* the sum of the gradients the other ranks bring to one all-reduce
Peers(n) == IF n = 1 THEN {0} ELSE (n - 1)..((n - 1) * MaxData)

\* os.path.join(path, 'epoch_' + str(epoch))
CheckpointDir(e) == e

\* nn.save_parameters(params.h5); solver.save_states(solver.h5)
CheckpointFiles(s) == [params |-> s.parameters, solver |-> s.solver_states]

\* Restored without solver.load_states
Restored_ParametersOnly(files, s) == [s EXCEPT !.parameters = files.params]

\* nn.load_parameters(params.h5); solver.load_states(solver.h5)
Restored(files, s) ==
    [s EXCEPT !.parameters = files.params, !.solver_states = files.solver]

\* ------------------------------------------------------------------ Init
\* the variables of the other specifications, which a specification leaves alone
NoRank ==
    /\ rank = 0
    /\ parameters = 0
    /\ grad = 0
    /\ solver_states = 0
    /\ learning_rate = InitialLearningRate
    /\ pc = "idle"
    /\ epoch = 0
    /\ i = 0
    /\ epoch_loss = 0
    /\ loss_acc = 0
    /\ logged = None
    /\ checkpoints = <<>>
    /\ calls = 0
    /\ last = "init"
    /\ batchOps = <<>>
    /\ fetched = 0
    /\ lossTotal = 0
    /\ before = None
    /\ saved = <<>>

NoMW ==
    /\ cur_epoch = 0
    /\ w_pc = <<>>
    /\ w_i = <<>>
    /\ w_state = <<>>
    /\ w_loss = <<>>
    /\ todo = <<>>
    /\ inflight = <<>>
    /\ issued = <<>>
    /\ w_logged = <<>>
    /\ w_snapshot = <<>>
    /\ contrib = <<>>

NoConv ==
    /\ img = <<>>
    /\ converted = <<>>

\* ------------------------------------------------------------------ Init
Init ==
    /\ driver \in {"vqvae", "tacotron2"}
    /\ n_procs \in 1..MaxProcs
    /\ rank \in 0..(MaxProcs - 1)
    /\ rank < n_procs
    /\ size \in 1..MaxSize
    /\ batch_size \in 1..MaxBatchSize
    /\ val_size \in 1..MaxValSize
    /\ learning_rate_decay_epochs \in SUBSET Epochs
    /\ driver = "tacotron2" => learning_rate_decay_epochs = {}
    /\ driver = "vqvae" => rank = 0
    /\ driver = "tacotron2" => size = 1 /\ val_size = 1
    /\ parameters = 0
    /\ grad = 0
    /\ solver_states = 0
    /\ learning_rate = InitialLearningRate
    /\ pc = "idle"
    /\ epoch = 0
    /\ i = 0
    /\ epoch_loss = 0
    /\ loss_acc = 0
    /\ logged = None
    /\ checkpoints = [e \in Epochs |-> None]
    /\ calls = 0
    /\ last = "init"
    /\ batchOps = <<>>
    /\ fetched = 0
    /\ lossTotal = 0
    /\ before = [parameters |-> parameters, solver_states |-> solver_states,
                 learning_rate |-> learning_rate]
    /\ saved = [e \in Epochs |-> None]
    /\ NoMW
    /\ NoConv

SetState(s) ==
    /\ parameters' = s.parameters
    /\ grad' = s.grad
    /\ solver_states' = s.solver_states
    /\ learning_rate' = s.learning_rate

\* history of a handler call that starts now
Called(name, e) ==
    /\ calls' = calls + 1
    /\ last' = name
    /\ epoch' = e
    /\ before' = [parameters |-> parameters, solver_states |-> solver_states,
                  learning_rate |-> learning_rate]
    /\ fetched' = 0
    /\ lossTotal' = 0

\* --------------------------------------------------------- VQVAEtrainer
\* train(epoch), up to the loop
TrainBegin(e) ==
    /\ UNCHANGED <<mwVars, convVars>>
    /\ driver = "vqvae" /\ pc = "idle" /\ calls < MaxCalls
    /\ pc' = "train"
    /\ i' = 0
    /\ epoch_loss' = 0
    /\ learning_rate' = DecayedRate(e, learning_rate)
    /\ Called("train", e)
    /\ batchOps' = <<>>
    /\ logged' = None
    /\ UNCHANGED <<config, parameters, grad, solver_states, loss_acc,
                   checkpoints, saved>>

\* one iteration of the loop of train
TrainBatch(data, peers) ==
    /\ UNCHANGED <<mwVars, convVars>>
    /\ pc = "train"
    /\ i < TrainLoopCount(iterations_per_epoch, n_procs)
    /\ LET ops == VQTrainBatchOps(n_procs, Backward(data), peers) IN
        /\ SetState(Exec(ops, State))
        /\ batchOps' = Names(ops)
    /\ epoch_loss' = epoch_loss + Forward(data)
    /\ i' = i + 1
    /\ last' = "train_batch"
    /\ fetched' = fetched + 1
    /\ lossTotal' = lossTotal + Forward(data)
    /\ logged' = None
    /\ UNCHANGED <<config, pc, epoch, loss_acc, checkpoints, calls, before, saved>>

\* train, after the loop
TrainEnd ==
    /\ UNCHANGED <<mwVars, convVars>>
    /\ pc = "train"
    /\ i = TrainLoopCount(iterations_per_epoch, n_procs)
    /\ logged' = [monitor |-> "train", epoch |-> epoch, num |-> epoch_loss,
                  den |-> TrainLossDivisor(iterations_per_epoch, n_procs)]
    /\ pc' = "idle"
    /\ i' = 0
    /\ epoch_loss' = 0
    /\ last' = "train_end"
    /\ batchOps' = <<>>
    /\ UNCHANGED <<config, parameters, grad, solver_states, learning_rate, epoch,
                   loss_acc, checkpoints, calls, fetched, lossTotal, before, saved>>

\* validate(epoch), up to the loop
ValidateBegin(e) ==
    /\ UNCHANGED <<mwVars, convVars>>
    /\ driver = "vqvae" /\ pc = "idle" /\ calls < MaxCalls
    /\ pc' = "validate"
    /\ i' = 0
    /\ epoch_loss' = 0
    /\ Called("validate", e)
    /\ batchOps' = <<>>
    /\ logged' = None
    /\ UNCHANGED <<config, parameters, grad, solver_states, learning_rate,
                   loss_acc, checkpoints, saved>>

\* one iteration of the loop of validate
ValidateBatch(data) ==
    /\ UNCHANGED <<mwVars, convVars>>
    /\ pc = "validate"
    /\ i < ValidateLoopCount(val_iterations_per_epoch, iterations_per_epoch)
    /\ LET ops == VQValidateBatchOps IN
        /\ SetState(Exec(ops, State))
        /\ batchOps' = Names(ops)
    /\ epoch_loss' = epoch_loss + Forward(data)
    /\ i' = i + 1
    /\ last' = "validate_batch"
    /\ fetched' = fetched + 1
    /\ lossTotal' = lossTotal + Forward(data)
    /\ logged' = None
    /\ UNCHANGED <<config, pc, epoch, loss_acc, checkpoints, calls, before, saved>>

\* validate, after the loop
ValidateEnd ==
    /\ UNCHANGED <<mwVars, convVars>>
    /\ pc = "validate"
    /\ i = ValidateLoopCount(val_iterations_per_epoch, iterations_per_epoch)
    /\ logged' = [monitor |-> "val", epoch |-> epoch, num |-> epoch_loss,
                  den |-> ValidateLossDivisor(val_iterations_per_epoch,
                                              iterations_per_epoch)]
    /\ pc' = "idle"
    /\ i' = 0
    /\ epoch_loss' = 0
    /\ last' = "validate_end"
    /\ batchOps' = <<>>
    /\ UNCHANGED <<config, parameters, grad, solver_states, learning_rate, epoch,
                   loss_acc, checkpoints, calls, fetched, lossTotal, before, saved>>

\* save_checkpoint(path, epoch)
SaveCheckpoint(e) ==
    /\ UNCHANGED <<mwVars, convVars>>
    /\ driver = "vqvae" /\ pc = "idle" /\ calls < MaxCalls
    /\ checkpoints' = [checkpoints EXCEPT ![CheckpointDir(e)] = CheckpointFiles(State)]
    /\ saved' = [saved EXCEPT ![e] = <<parameters, solver_states>>]
    /\ Called("save_checkpoint", e)
    /\ batchOps' = <<>>
    /\ logged' = None
    /\ UNCHANGED <<config, parameters, grad, solver_states, learning_rate, pc, i,
                   epoch_loss, loss_acc>>

\* load_checkpoint(path) on the directory save_checkpoint made for epoch e
LoadCheckpoint(e) ==
    /\ UNCHANGED <<mwVars, convVars>>
    /\ driver = "vqvae" /\ pc = "idle" /\ calls < MaxCalls
    /\ checkpoints[CheckpointDir(e)] # None
    /\ SetState(Restored(checkpoints[CheckpointDir(e)], State))
    /\ Called("load_checkpoint", e)
    /\ batchOps' = <<>>
    /\ logged' = None
    /\ UNCHANGED <<config, pc, i, epoch_loss, loss_acc, checkpoints, saved>>

\* ----------------------------------------------------- Tacotron2Trainer
\* train_on_batch()
TrainOnBatch(data, peers) ==
    /\ UNCHANGED <<mwVars, convVars>>
    /\ driver = "tacotron2" /\ calls < MaxCalls
    /\ LET ops == TacoTrainOps(n_procs, Backward(data), peers) IN
        /\ SetState(Exec(ops, State))
        /\ batchOps' = Names(ops)
    /\ Called("train_on_batch", 0)
    /\ logged' = None
    /\ UNCHANGED <<config, pc, i, epoch_loss, loss_acc, checkpoints, saved>>

\* valid_on_batch()
ValidOnBatch(data) ==
    /\ UNCHANGED <<mwVars, convVars>>
    /\ driver = "tacotron2" /\ calls < MaxCalls
    /\ LET ops == TacoValidOps(n_procs) IN
        /\ SetState(Exec(ops, State))
        /\ batchOps' = Names(ops)
    /\ loss_acc' = loss_acc + Forward(data) * batch_size
    /\ Called("valid_on_batch", 0)
    /\ logged' = None
    /\ UNCHANGED <<config, pc, i, epoch_loss, checkpoints, saved>>

\* training and validation of either driver, in any order
Next ==
    \/ \E e \in Epochs : TrainBegin(e)
    \/ \E data \in Batches, peers \in Peers(n_procs) : TrainBatch(data, peers)
    \/ TrainEnd
    \/ \E e \in Epochs : ValidateBegin(e)
    \/ \E data \in Batches : ValidateBatch(data)
    \/ ValidateEnd
    \/ \E data \in Batches, peers \in Peers(n_procs) : TrainOnBatch(data, peers)
    \/ \E data \in Batches : ValidOnBatch(data)

Spec == Init /\ [][Next]_vars

\* the VQ-VAE trainer with its checkpoints: training, saving and loading in any
\* order
InitCkpt == Init /\ driver = "vqvae"

NextCkpt ==
    \/ \E e \in Epochs : TrainBegin(e)
    \/ \E data \in Batches, peers \in Peers(n_procs) : TrainBatch(data, peers)
    \/ TrainEnd
    \/ \E e \in Epochs : SaveCheckpoint(e)
    \/ \E e \in Epochs : LoadCheckpoint(e)

SpecCkpt == InitCkpt /\ [][NextCkpt]_vars

\* ======================================================================
\* SpecMW: all ranks of one run.  A rank that calls comm.all_reduce blocks
\* until every rank has called it; then every rank's buffer is overwritten
\* with the combined value.
\* ======================================================================
Ranks == 0..(n_procs - 1)

Shards == 1..MaxShard

RECURSIVE SumOver(_, _)
SumOver(f, S) ==
    IF S = {} THEN 0
    ELSE LET x == CHOOSE y \in S : TRUE IN f[x] + SumOver(f, S \ {x})

\* the position of the first all_reduce of a batch's calls, 0 when it has none
ReduceAt(ops) ==
    IF \E k \in DOMAIN ops : ops[k].op = "all_reduce"
    THEN CHOOSE k \in DOMAIN ops :
            /\ ops[k].op = "all_reduce"
            /\ \A j \in 1..(k - 1) : ops[j].op # "all_reduce"
    ELSE 0

\* the calls of one training batch of the running driver
TrainOps(data) ==
    IF driver = "vqvae" THEN VQTrainBatchOps(n_procs, Backward(data), 0)
    ELSE TacoTrainOps(n_procs, Backward(data), 0)

\* the gradient buffer and the parameters at the moment solver.update() runs
AtUpdate(ops, s) ==
    IF \E k \in DOMAIN ops : ops[k].op = "update"
    THEN LET k == CHOOSE j \in DOMAIN ops : ops[j].op = "update"
             t == Exec(SubSeq(ops, 1, k - 1), s)
         IN [grad |-> t.grad, parameters |-> t.parameters]
    ELSE None

\* the number of train_on_batch / valid_on_batch calls the run loop of the
\* Tacotron2 trainer makes per epoch, the same on every rank
TacoTrainIters == IterationsPerEpoch(size, batch_size, n_procs)

TacoValidIters == IterationsPerEpoch(val_size, batch_size, n_procs)

TrainIters ==
    IF driver = "vqvae" THEN TrainLoopCount(iterations_per_epoch, n_procs)
    ELSE TacoTrainIters

\* CallbackReduces with the all-reduce moved under the rank == 0 test
CallbackReduces_RankZeroOnly(n, r) == n > 1 /\ r = 0

\* callback_on_epoch_end: if self.hparams.comm.n_procs > 1: all_reduce([self.loss])
CallbackReduces(n, r) == n > 1

\* callback_on_epoch_end: if self.hparams.comm.rank == 0: monitor.info(...)
CallbackLogs(r) == r = 0

InitMW ==
    /\ driver \in {"vqvae", "tacotron2"}
    /\ n_procs \in 1..MaxProcs
    /\ size \in 1..MaxSize
    /\ batch_size = 1
    /\ val_size \in 1..MaxValSize
    /\ driver = "vqvae" => val_size = 1
    /\ learning_rate_decay_epochs = {0}
    /\ cur_epoch = 0
    /\ w_pc = [r \in Ranks |-> IF driver = "vqvae" THEN "begin" ELSE "train"]
    /\ w_i = [r \in Ranks |-> 0]
    /\ w_state = [r \in Ranks |->
                    [parameters |-> 0, grad |-> 0, solver_states |-> 0,
                     learning_rate |-> InitialLearningRate]]
    /\ w_loss = [r \in Ranks |-> 0]
    /\ todo = [r \in Ranks |-> <<>>]
    /\ inflight = [r \in Ranks |-> None]
    /\ issued = [r \in Ranks |-> <<>>]
    /\ w_logged = [r \in Ranks |-> None]
    /\ w_snapshot = [r \in Ranks |-> None]
    /\ contrib = None
    /\ NoRank
    /\ NoConv

\* VQVAEtrainer.train(epoch) on rank r, up to the loop
MW_TrainBegin(r) ==
    /\ UNCHANGED <<config, rankVars, convVars>>
    /\ driver = "vqvae" /\ w_pc[r] = "begin"
    /\ w_state' = [w_state EXCEPT ![r].learning_rate =
                        DecayedRate(cur_epoch, w_state[r].learning_rate)]
    /\ w_loss' = [w_loss EXCEPT ![r] = 0]
    /\ w_i' = [w_i EXCEPT ![r] = 0]
    /\ w_pc' = [w_pc EXCEPT ![r] = "train"]
    /\ UNCHANGED <<cur_epoch, todo, inflight, issued, w_logged, w_snapshot, contrib>>

\* one training batch on rank r, up to its all-reduce (VQVAEtrainer.train's loop
\* body, Tacotron2Trainer.train_on_batch); all of it when it has no all-reduce
MW_TrainBatch(r, data) ==
    /\ UNCHANGED <<config, rankVars, convVars>>
    /\ w_pc[r] = "train" /\ w_i[r] < TrainIters
    /\ LET ops == TrainOps(data)
           k == ReduceAt(ops)
       IN IF k = 0
          THEN /\ w_state' = [w_state EXCEPT ![r] = Exec(ops, w_state[r])]
               /\ w_i' = [w_i EXCEPT ![r] = w_i[r] + 1]
               /\ UNCHANGED <<w_pc, todo, inflight, issued>>
          ELSE /\ w_state' = [w_state EXCEPT ![r] =
                                 Exec(SubSeq(ops, 1, k - 1), w_state[r])]
               /\ inflight' = [inflight EXCEPT ![r] = [kind |-> "grad", op |-> ops[k]]]
               /\ issued' = [issued EXCEPT ![r] = Append(issued[r], "grad")]
               /\ todo' = [todo EXCEPT ![r] = SubSeq(ops, k + 1, Len(ops))]
               /\ w_pc' = [w_pc EXCEPT ![r] = "reduce"]
               /\ UNCHANGED w_i
    /\ w_loss' = [w_loss EXCEPT ![r] =
                    IF driver = "vqvae" THEN w_loss[r] + Forward(data) ELSE w_loss[r]]
    /\ UNCHANGED <<cur_epoch, w_logged, w_snapshot, contrib>>

\* the communicator completes the gradient all-reduce every rank is blocked in
MW_GradAllReduce ==
    /\ UNCHANGED <<config, rankVars, convVars>>
    /\ \A r \in Ranks : inflight[r] # None /\ inflight[r].kind = "grad"
    /\ LET buf == [r \in Ranks |-> w_state[r].grad]
           total == SumOver(buf, Ranks)
       IN /\ w_state' = [r \in Ranks |->
                Apply([inflight[r].op EXCEPT !.peers = total - buf[r]], w_state[r])]
          /\ contrib' = buf
    /\ inflight' = [r \in Ranks |-> None]
    /\ w_pc' = [r \in Ranks |-> "update"]
    /\ UNCHANGED <<cur_epoch, w_i, w_loss, todo, issued, w_logged, w_snapshot>>

\* the rest of the training batch on rank r, after its all-reduce returned
MW_TrainBatchUpdate(r) ==
    /\ UNCHANGED <<config, rankVars, convVars>>
    /\ w_pc[r] = "update"
    /\ w_state' = [w_state EXCEPT ![r] = Exec(todo[r], w_state[r])]
    /\ contrib' = IF \A q \in Ranks \ {r} : w_pc[q] # "update" THEN None ELSE contrib
    /\ todo' = [todo EXCEPT ![r] = <<>>]
    /\ w_i' = [w_i EXCEPT ![r] = w_i[r] + 1]
    /\ w_pc' = [w_pc EXCEPT ![r] = "train"]
    /\ UNCHANGED <<cur_epoch, w_loss, inflight, issued, w_logged, w_snapshot>>

\* VQVAEtrainer.train on rank r, after the loop
MW_TrainEnd(r) ==
    /\ UNCHANGED <<config, rankVars, convVars>>
    /\ driver = "vqvae" /\ w_pc[r] = "train" /\ w_i[r] = TrainIters
    /\ w_logged' = [w_logged EXCEPT ![r] =
                      [monitor |-> "train", epoch |-> cur_epoch, num |-> w_loss[r],
                       den |-> TrainLossDivisor(iterations_per_epoch, n_procs)]]
    /\ w_pc' = [w_pc EXCEPT ![r] = "done"]
    /\ UNCHANGED <<cur_epoch, w_i, w_state, w_loss, todo, inflight, issued,
                   w_snapshot, contrib>>

\* the Tacotron2 run loop on rank r goes from its training batches to validation
MW_RunValidation(r) ==
    /\ UNCHANGED <<config, rankVars, convVars>>
    /\ driver = "tacotron2" /\ w_pc[r] = "train" /\ w_i[r] = TrainIters
    /\ w_i' = [w_i EXCEPT ![r] = 0]
    /\ w_pc' = [w_pc EXCEPT ![r] = "valid"]
    /\ UNCHANGED <<cur_epoch, w_state, w_loss, todo, inflight, issued, w_logged,
                   w_snapshot, contrib>>

\* Tacotron2Trainer.valid_on_batch on rank r
MW_ValidOnBatch(r, data) ==
    /\ UNCHANGED <<config, rankVars, convVars>>
    /\ driver = "tacotron2" /\ w_pc[r] = "valid" /\ w_i[r] < TacoValidIters
    /\ w_state' = [w_state EXCEPT ![r] = Exec(TacoValidOps(n_procs), w_state[r])]
    /\ w_loss' = [w_loss EXCEPT ![r] = w_loss[r] + Forward(data) * batch_size]
    /\ w_i' = [w_i EXCEPT ![r] = w_i[r] + 1]
    /\ UNCHANGED <<cur_epoch, w_pc, todo, inflight, issued, w_logged, w_snapshot,
                   contrib>>

\* Tacotron2Trainer.callback_on_epoch_end on rank r, up to its all-reduce
MW_CallbackOnEpochEnd(r) ==
    /\ UNCHANGED <<config, rankVars, convVars>>
    /\ driver = "tacotron2" /\ w_pc[r] = "valid" /\ w_i[r] = TacoValidIters
    /\ IF CallbackReduces(n_procs, r)
       THEN /\ inflight' = [inflight EXCEPT ![r] =
                  [kind |-> "loss",
                   op |-> [op |-> "all_reduce", division |-> TRUE, n |-> n_procs,
                           peers |-> 0]]]
            /\ issued' = [issued EXCEPT ![r] = Append(issued[r], "loss")]
            /\ w_pc' = [w_pc EXCEPT ![r] = "reduce"]
       ELSE /\ w_pc' = [w_pc EXCEPT ![r] = "finish"]
            /\ UNCHANGED <<inflight, issued>>
    /\ UNCHANGED <<cur_epoch, w_i, w_state, w_loss, todo, w_logged, w_snapshot,
                   contrib>>

\* the communicator completes the validation-loss all-reduce
MW_LossAllReduce ==
    /\ UNCHANGED <<config, rankVars, convVars>>
    /\ \A r \in Ranks : inflight[r] # None /\ inflight[r].kind = "loss"
    /\ w_loss' = [r \in Ranks |->
                    Combine(SumOver(w_loss, Ranks), inflight[r].op.n,
                            inflight[r].op.division)]
    /\ inflight' = [r \in Ranks |-> None]
    /\ w_pc' = [r \in Ranks |-> "finish"]
    /\ UNCHANGED <<cur_epoch, w_i, w_state, todo, issued, w_logged, w_snapshot,
                   contrib>>

\* callback_on_epoch_end on rank r, after its all-reduce
MW_CallbackFinish(r) ==
    /\ UNCHANGED <<config, rankVars, convVars>>
    /\ w_pc[r] = "finish"
    /\ w_logged' = [w_logged EXCEPT ![r] =
                      IF CallbackLogs(r)
                      THEN [monitor |-> "valid/loss", epoch |-> cur_epoch,
                            num |-> w_loss[r], den |-> val_size]
                      ELSE w_logged[r]]
    /\ w_snapshot' = [w_snapshot EXCEPT ![r] =
                        IF CallbackLogs(r) /\ cur_epoch % epochs_per_checkpoint = 0
                        THEN [epoch |-> cur_epoch, params |-> w_state[r].parameters]
                        ELSE w_snapshot[r]]
    /\ w_loss' = [w_loss EXCEPT ![r] = 0]
    /\ w_pc' = [w_pc EXCEPT ![r] = "done"]
    /\ UNCHANGED <<cur_epoch, w_i, w_state, todo, inflight, issued, contrib>>

NextMW ==
    \/ \E r \in Ranks : MW_TrainBegin(r)
    \/ \E r \in Ranks, data \in Shards : MW_TrainBatch(r, data)
    \/ MW_GradAllReduce
    \/ \E r \in Ranks : MW_TrainBatchUpdate(r)
    \/ \E r \in Ranks : MW_TrainEnd(r)
    \/ \E r \in Ranks : MW_RunValidation(r)
    \/ \E r \in Ranks, data \in Shards : MW_ValidOnBatch(r, data)
    \/ \E r \in Ranks : MW_CallbackOnEpochEnd(r)
    \/ MW_LossAllReduce
    \/ \E r \in Ranks : MW_CallbackFinish(r)

\* every process keeps running: a step that can be taken is taken
SpecMW == InitMW /\ [][NextMW]_vars /\ WF_vars(NextMW)

\* ======================================================================
\* SpecConv: VQVAEtrainer.convert_to_var.  A pixel value x is held as the
\* integer x * One, so 0.5 is Half and the raw byte b is b * One.
\* ======================================================================
One == 2 * ByteMax

Half == ByteMax

Pixels == {0, Half, One, 2 * One, 128 * One, ByteMax * One}

\* np.all(img < 1)
AllBelowOne(a) == \A k \in DOMAIN a : a[k] < One

\* img / 255.0, elementwise
Div255(a) == [k \in DOMAIN a |-> a[k] \div ByteMax]

\* (img - 0.5) / 0.5, elementwise
Rescale(a) == [k \in DOMAIN a |-> ((a[k] - Half) * One) \div Half]

\* convert_to_var(img)
convert_to_var(a) ==
    LET scaled == IF ~AllBelowOne(a) THEN Div255(a) ELSE a
    IN Rescale(scaled)

InitConv ==
    /\ img \in UNION {[1..n -> Pixels] : n \in 1..MaxPixels}
    /\ converted = <<>>
    /\ driver = "vqvae"
    /\ n_procs = 1
    /\ size = 1
    /\ batch_size = 1
    /\ val_size = 1
    /\ learning_rate_decay_epochs = {}
    /\ NoRank
    /\ NoMW

Convert ==
    /\ last = "init"
    /\ converted' = convert_to_var(img)
    /\ last' = "convert_to_var"
    /\ UNCHANGED <<config, img, mwVars, rank, parameters, grad, solver_states,
                   learning_rate, pc, epoch, i, epoch_loss, loss_acc, logged,
                   checkpoints, calls, batchOps, fetched, lossTotal, before, saved>>

NextConv == Convert

SpecConv == InitConv /\ [][NextConv]_vars

\* ================================================================ claims
Count(seq, name) == Cardinality({k \in DOMAIN seq : seq[k] = name})

Pos(seq, name) == CHOOSE k \in DOMAIN seq : seq[k] = name

TrainingBatchDone == last \in {"train_batch", "train_on_batch"}

\* the solver updates made since the last handler was called
UpdatesSinceCall == solver_states - before.solver_states

\* C1: every training batch of either driver performs exactly one optimizer
\* update (one per batch fetched), and with n_procs > 1 exactly one all-reduce
\* of the gradients, after the batch's backward pass and before its update.
C1_OneReduceOneUpdatePerBatch ==
    TrainingBatchDone =>
        /\ Count(batchOps, "update") = 1
        /\ Count(batchOps, "backward") = 1
        /\ UpdatesSinceCall = (IF last = "train_batch" THEN fetched ELSE 1)
        /\ n_procs > 1 =>
            /\ Count(batchOps, "all_reduce") = 1
            /\ Pos(batchOps, "backward") < Pos(batchOps, "all_reduce")
            /\ Pos(batchOps, "all_reduce") < Pos(batchOps, "update")

C1_Witness ==
    /\ last = "train_batch" /\ n_procs > 1 /\ fetched = 1
    /\ Count(batchOps, "all_reduce") = 1

ValidationStep ==
    last \in {"validate", "validate_batch", "validate_end", "valid_on_batch"}

\* C2: during and after a validation pass of either driver the parameters, the
\* solver state and the learning rate are those the pass started with, and no
\* validation batch runs a backward pass, an all-reduce, a weight decay or an
\* optimizer update.
C2_ValidationLeavesParameters ==
    ValidationStep =>
        /\ parameters = before.parameters
        /\ solver_states = before.solver_states
        /\ learning_rate = before.learning_rate
        /\ \A k \in DOMAIN batchOps :
              batchOps[k] \notin {"backward", "all_reduce", "weight_decay", "update"}

C2_Witness ==
    /\ last = "validate_end" /\ fetched > 0
    /\ solver_states > 0 /\ parameters # 0

\* C3: the training loss logged by train(epoch) is the mean of the losses of the
\* batches it processed: logged = lossTotal / fetched.
C3_TrainLossIsMean ==
    last = "train_end" => logged.num * fetched = lossTotal * logged.den

\* C4: train(epoch) fetches exactly ceil(size / batch_size / n_procs) batches.
C4_TrainFetchesCeil ==
    last = "train_end" => fetched = Ceil(size, batch_size * n_procs)

TrainStep == last \in {"train", "train_batch", "train_end"}

\* C5: the learning rate changes only in train(epoch), before its first batch:
\* from the call of train(e) on it is the rate at the call times the decay
\* factor when e is a configured decay epoch, and the rate at the call
\* otherwise; every other handler leaves it as it was at its call.
C5_DecayOncePerDecayEpoch ==
    learning_rate =
        IF TrainStep /\ epoch \in learning_rate_decay_epochs
        THEN before.learning_rate * learning_rate_decay_factor
        ELSE before.learning_rate

C5_Witness ==
    /\ last = "train_end" /\ fetched > 0
    /\ epoch \in learning_rate_decay_epochs
    /\ before.learning_rate = InitialLearningRate * learning_rate_decay_factor
    /\ learning_rate_decay_epochs # Epochs

\* C9: the validation loss logged by validate(epoch) is the mean of the losses of
\* the validation batches it processed: logged = lossTotal / fetched.
C9_ValidateLossIsMean ==
    last = "validate_end" => logged.num * fetched = lossTotal * logged.den

\* C10: load_checkpoint on the directory save_checkpoint(path, E) made leaves the
\* parameters and the solver state equal to those immediately before that save,
\* whatever training happened in between.
C10_CheckpointRoundTrip ==
    last = "load_checkpoint" => <<parameters, solver_states>> = saved[epoch]

C10_Witness ==
    /\ last = "load_checkpoint"
    /\ parameters # before.parameters
    /\ solver_states # before.solver_states

\* ------------------------------------------------------- SpecMW claims
\* rank r holds the result of a gradient all-reduce and has yet to update
AwaitsUpdate(r) == contrib # None /\ w_pc[r] = "update"

\* the value that all-reduce combines the ranks' buffers to
CombinedGrad(division) == Wrap(Combine(SumOver(contrib, Ranks), n_procs, division))

\* the gradient the update of rank r runs on, given the all-reduced gradient c:
\* VQVAEtrainer.train adds the weight-decay term between the two
UpdateGrad(r, c) ==
    IF driver = "vqvae" THEN Wrap(c + weight_decay * w_state[r].parameters) ELSE c

\* C6 as stated: in both drivers the all-reduce leaves the sum of the ranks'
\* gradients in every rank's buffer, and every rank's update runs on that sum.
C6_SumInBothDrivers ==
    n_procs > 1 =>
        \A r \in Ranks : AwaitsUpdate(r) =>
            /\ w_state[r].grad = CombinedGrad(FALSE)
            /\ AtUpdate(todo[r], w_state[r]).grad = UpdateGrad(r, CombinedGrad(FALSE))

\* C6 as amended: the all-reduce leaves in every rank's buffer the sum of the
\* ranks' gradients in the VQ-VAE driver and their average (the sum divided by
\* n_procs) in the Tacotron2 driver; every rank's update runs on that combined
\* value, the same on every rank.
C6_SumOrAverage ==
    n_procs > 1 =>
        \A r \in Ranks : AwaitsUpdate(r) =>
            /\ w_state[r].grad = CombinedGrad(driver = "tacotron2")
            /\ AtUpdate(todo[r], w_state[r]).grad =
                    UpdateGrad(r, CombinedGrad(driver = "tacotron2"))
            /\ \A q \in Ranks : AwaitsUpdate(q) =>
                    AtUpdate(todo[q], w_state[q]).grad = AtUpdate(todo[r], w_state[r]).grad

C6_Witness ==
    /\ n_procs > 1 /\ driver = "tacotron2"
    /\ \A r \in Ranks : AwaitsUpdate(r)
    /\ \E r \in Ranks : AtUpdate(todo[r], w_state[r]).grad # contrib[r]
    /\ \E r, q \in Ranks : contrib[r] # contrib[q]

IsPrefix(a, b) == Len(a) <= Len(b) /\ SubSeq(b, 1, Len(a)) = a

AllRanksDone == \A r \in Ranks : w_pc[r] = "done"

\* the ranks' all-reduce calls so far are one sequence, and a rank that has
\* finished the epoch made one gradient all-reduce per training batch and, in the
\* Tacotron2 driver, one loss all-reduce, and no other rank has made more
CollectivesAgree ==
    n_procs > 1 =>
        \A r \in Ranks :
            /\ \A q \in Ranks : IsPrefix(issued[r], issued[q]) \/ IsPrefix(issued[q], issued[r])
            /\ w_pc[r] = "done" =>
                /\ Count(issued[r], "grad") = w_state[r].solver_states
                /\ Count(issued[r], "loss") = (IF driver = "tacotron2" THEN 1 ELSE 0)
                /\ \A q \in Ranks : IsPrefix(issued[q], issued[r])

\* C7: every rank makes the same sequence of all-reduce calls (one per training
\* batch and, in the Tacotron2 driver, one for the validation loss at the epoch's
\* end, on every rank), and every rank eventually completes the epoch.
C7_SameCollectivesAndCompletion == []CollectivesAgree /\ <>AllRanksDone

C7_Witness ==
    /\ n_procs > 1 /\ driver = "tacotron2" /\ AllRanksDone
    /\ \A r \in Ranks : Count(issued[r], "grad") > 0 /\ Count(issued[r], "loss") = 1

\* ----------------------------------------------------- SpecConv claims
InUnitRange(a) == \A k \in DOMAIN a : 0 <= a[k] /\ a[k] <= One

\* C8: a batch whose values all lie in [0,1], the value 1 included, is mapped to
\* (x - 0.5)/0.5 without the division by 255; any other batch is divided by 255
\* first; every output lies in [-1,1].
C8_NormalizesToSignedUnit ==
    last = "convert_to_var" =>
        /\ InUnitRange(img) => converted = Rescale(img)
        /\ ~InUnitRange(img) => converted = Rescale(Div255(img))
        /\ \A k \in DOMAIN converted : -One <= converted[k] /\ converted[k] <= One

====
